---------------------------- MODULE Spec2Model ----------------------------
(***************************************************************************)
(* PlayNext recommendation engine: the detail cache (_load_cache,          *)
(* _save_cache, _get_game_details_cached), the preference extraction and   *)
(* result assembly of get_recommendations, the candidate scorer            *)
(* (_fetch_and_process_game, _is_base_game) and the thread-pool fan-out    *)
(* with first-arrival dedup (_find_matching_games_parallel).               *)
(*                                                                         *)
(* Representation.  A Python str is a sequence of one-character strings,   *)
(* so that lower(), split(), strip(), replace() and the substring test     *)
(* are computed character by character.  Times are whole hours.  Prices    *)
(* are integer cents (the code divides by 100.0; every comparison it makes *)
(* is between two such quotients or with a request bound given in cents).  *)
(* The JSON cache file is a sequence of tokens: one token per entry in     *)
(* dict order, then the token EndTok for the closing brace.                *)
(***************************************************************************)
EXTENDS Integers, Sequences, FiniteSets, TLC

(***************************************************************************)
(* Bounds of the model                                                     *)
(***************************************************************************)
\* longest owned-games list the profile source returns
MaxOwned == 3
\* longest owned-games list in SpecExtract and SpecScore
MaxOwnedWide == 5
\* the wall clock when the process is constructed, in hours
StartTime == 9000
\* hours the clock advances per Tick
TickHours == 12
\* how many times the clock advances
MaxTicks == 3
\* how many calls of the store may fail while one process runs
MaxFailures == 1

\* titles of the catalog above app id 100
CatalogCount == 70

(***************************************************************************)
(* Program constants                                                       *)
(***************************************************************************)
\* timedelta(hours=24)
cache_duration == 24
\* ThreadPoolExecutor(max_workers=10)
max_workers == 10
\* above_average_games[:30]
TopPlayedN == 30
\* tag_counts.most_common(20)
TopTagsN == 20
\* category_counts.most_common(15)
TopCategoriesN == 15
\* top_tags[:10] in the response
ResponseTagsN == 10
\* regular_games[:30], on_sale_games[:30]
MaxRecommendations == 30
\* match_score threshold of the on-sale bucket
SaleMinScore == 2
\* match_score threshold of the regular bucket
RegularMinScore == 4
\* the sale grace margin, max(0, min_rating - 20)
SaleGrace == 20
\* timedelta(days=365), in hours
RecentHours == 8760

(***************************************************************************)
(* Python str operations on character sequences                            *)
(***************************************************************************)
Range(s) == { s[i] : i \in DOMAIN s }

\* str.lower() on one character
Lower(c) ==
  CASE c = "A" -> "a"
    [] c = "B" -> "b"
    [] c = "C" -> "c"
    [] c = "D" -> "d"
    [] c = "E" -> "e"
    [] c = "F" -> "f"
    [] c = "G" -> "g"
    [] c = "H" -> "h"
    [] c = "I" -> "i"
    [] c = "J" -> "j"
    [] c = "K" -> "k"
    [] c = "L" -> "l"
    [] c = "M" -> "m"
    [] c = "N" -> "n"
    [] c = "O" -> "o"
    [] c = "P" -> "p"
    [] c = "Q" -> "q"
    [] c = "R" -> "r"
    [] c = "S" -> "s"
    [] c = "T" -> "t"
    [] c = "U" -> "u"
    [] c = "V" -> "v"
    [] c = "W" -> "w"
    [] c = "X" -> "x"
    [] c = "Y" -> "y"
    [] c = "Z" -> "z"
    [] OTHER -> c

\* str.lower()
LowerStr(s) == [ i \in DOMAIN s |-> Lower(s[i]) ]

\* s[i:], 1-based
DropTo(s, i) == SubSeq(s, i, Len(s))

\* does pat occur in s at position i
MatchAt(s, pat, i) ==
  /\ i + Len(pat) - 1 <= Len(s)
  /\ \A k \in 1..Len(pat) : s[i + k - 1] = pat[k]

\* the Python test  pat in s
Contains(s, pat) == \E i \in 1..(Len(s) + 1) : MatchAt(s, pat, i)

\* s.split(ch)[0] : the part before the first occurrence of ch
BeforeFirst(s, ch) ==
  IF \E i \in DOMAIN s : s[i] = ch
  THEN LET p == CHOOSE i \in DOMAIN s :
                  s[i] = ch /\ \A j \in 1..(i - 1) : s[j] # ch
       IN SubSeq(s, 1, p - 1)
  ELSE s

\* s.strip() for the blank
Strip(s) ==
  IF \A i \in DOMAIN s : s[i] = " "
  THEN << >>
  ELSE LET a == CHOOSE i \in DOMAIN s :
                  s[i] # " " /\ \A j \in 1..(i - 1) : s[j] = " "
           b == CHOOSE i \in DOMAIN s :
                  s[i] # " " /\ \A j \in (i + 1)..Len(s) : s[j] = " "
       IN SubSeq(s, a, b)

\* s.replace(pat, ''), left to right without overlap; pat is not empty
RECURSIVE RemoveAll(_, _)
RemoveAll(s, pat) ==
  IF s = << >> THEN << >>
  ELSE IF MatchAt(s, pat, 1)
       THEN RemoveAll(DropTo(s, Len(pat) + 1), pat)
       ELSE << s[1] >> \o RemoveAll(Tail(s), pat)

(***************************************************************************)
(* _is_base_game                                                           *)
(***************************************************************************)
dlc_keywords ==
  << <<"d", "l", "c">>,
     <<"e", "x", "p", "a", "n", "s", "i", "o", "n">>,
     <<"s", "e", "a", "s", "o", "n", " ", "p", "a", "s", "s">>,
     <<"b", "u", "n", "d", "l", "e">>,
     <<"p", "a", "c", "k">>,
     <<"p", "r", "e", "m", "i", "u", "m", " ", "e", "d", "i", "t", "i", "o", "n">>,
     <<"d", "e", "l", "u", "x", "e", " ", "e", "d", "i", "t", "i", "o", "n">>,
     <<"u", "l", "t", "i", "m", "a", "t", "e", " ", "e", "d", "i", "t", "i", "o", "n">>,
     <<"g", "o", "l", "d", " ", "e", "d", "i", "t", "i", "o", "n">>,
     <<"c", "o", "m", "p", "l", "e", "t", "e", " ", "e", "d", "i", "t", "i", "o", "n">>,
     <<"g", "o", "t", "y">>,
     <<"g", "a", "m", "e", " ", "o", "f", " ", "t", "h", "e", " ", "y", "e", "a", "r">>,
     <<"c", "o", "l", "l", "e", "c", "t", "o", "r">>,
     <<"s", "p", "e", "c", "i", "a", "l", " ", "e", "d", "i", "t", "i", "o", "n">>,
     <<"e", "n", "h", "a", "n", "c", "e", "d", " ", "e", "d", "i", "t", "i", "o", "n">>,
     <<"s", "o", "u", "n", "d", "t", "r", "a", "c", "k">>,
     <<"a", "r", "t", "b", "o", "o", "k">>,
     <<"c", "o", "s", "m", "e", "t", "i", "c">>,
     <<"u", "p", "g", "r", "a", "d", "e">>,
     <<"d", "e", "f", "i", "n", "i", "t", "i", "v", "e", " ", "e", "d", "i", "t", "i", "o", "n">>,
     <<"d", "i", "g", "i", "t", "a", "l", " ", "d", "e", "l", "u", "x", "e">>,
     <<"l", "i", "m", "i", "t", "e", "d", " ", "e", "d", "i", "t", "i", "o", "n">>,
     <<"f", "o", "u", "n", "d", "e", "r", "s">>,
     <<"s", "t", "a", "r", "t", "e", "r", " ", "p", "a", "c", "k">>,
     <<"b", "o", "n", "u", "s", " ", "c", "o", "n", "t", "e", "n", "t">>,
     <<"c", "o", "s", "m", "e", "t", "i", "c", " ", "p", "a", "c", "k">>,
     <<"s", "e", "a", "s", "o", "n">>,
     <<"c", "h", "a", "p", "t", "e", "r">>,
     <<"e", "p", "i", "s", "o", "d", "e">>,
     <<"s", "u", "p", "p", "o", "r", "t", "e", "r", " ", "p", "a", "c", "k">>,
     <<"i", "m", "p", "e", "r", "i", "a", "l", " ", "e", "d", "i", "t", "i", "o", "n">>,
     <<"r", "o", "y", "a", "l", " ", "e", "d", "i", "t", "i", "o", "n">>,
     <<"l", "e", "g", "e", "n", "d", "a", "r", "y", " ", "e", "d", "i", "t", "i", "o", "n">>,
     <<"e", "x", "c", "l", "u", "s", "i", "v", "e", " ", "e", "d", "i", "t", "i", "o", "n">>,
     <<"p", "r", "e", "m", "i", "u", "m", " ", "u", "p", "g", "r", "a", "d", "e">>,
     <<"u", "p", "g", "r", "a", "d", "e", " ", "p", "a", "c", "k">>,
     <<"c", "o", "n", "t", "e", "n", "t", " ", "p", "a", "c", "k">>,
     <<"b", "o", "n", "u", "s", " ", "p", "a", "c", "k">>,
     <<"p", "r", "e", "-", "o", "r", "d", "e", "r">>,
     <<"s", "p", "e", "c", "i", "a", "l", " ", "p", "a", "c", "k">>,
     <<"c", "o", "l", "l", "e", "c", "t", "i", "o", "n", " ", "p", "a", "c", "k">>,
     <<"m", "e", "g", "a", " ", "p", "a", "c", "k">>,
     <<"m", "a", "s", "t", "e", "r", " ", "c", "o", "l", "l", "e", "c", "t", "i", "o", "n">>,
     <<"a", "n", "n", "i", "v", "e", "r", "s", "a", "r", "y", " ", "e", "d", "i", "t", "i", "o", "n">>,
     <<"r", "e", "m", "a", "s", "t", "e", "r", "e", "d">>,
     <<"g", "a", "m", "e", " ", "+", " ">>,
     <<"+", " ", "d", "l", "c">>,
     <<"c", "o", "m", "p", "l", "e", "t", "e", " ", "p", "a", "c", "k">>,
     <<"f", "u", "l", "l", " ", "p", "a", "c", "k">>,
     <<"e", "v", "e", "r", "y", "t", "h", "i", "n", "g", " ", "p", "a", "c", "k">>,
     <<"a", "l", "l", " ", "d", "l", "c">> >>

_is_base_game(name, game_type) ==
  LET name_lower == LowerStr(name)
  IN IF game_type # "" /\ game_type # "game"
     THEN FALSE
     ELSE ~ \E k \in DOMAIN dlc_keywords : Contains(name_lower, dlc_keywords[k])

(***************************************************************************)
(* Name keys                                                               *)
(***************************************************************************)
\* game_name.split(':')[0].split('-')[0].strip()
BaseName(game_name) == Strip(BeforeFirst(BeforeFirst(game_name, ":"), "-"))

\* .lower().replace('the ', '').replace(':', '').replace('-', '').replace(' ', '')
Normalize(base_name) ==
  RemoveAll(RemoveAll(RemoveAll(RemoveAll(LowerStr(base_name),
            <<"t", "h", "e", " ">>), <<":">>), <<"-">>), <<" ">>)


(***************************************************************************)
(* The external catalog source: what the store answers for each app id.    *)
(* Version 1 of the source is version 0 after a price change (the discount *)
(* of app 10 has ended).                                                   *)
(***************************************************************************)
CommonGenres ==
  <<"Action", "Adventure", "Casual", "Indie", "Massively Multiplayer",
    "Racing", "RPG", "Simulation", "Sports", "Strategy">>

AllCategories ==
  <<"Single-player", "Multi-player", "Co-op", "Steam Achievements",
    "Steam Cloud", "Steam Trading Cards", "Full controller support",
    "Steam Workshop">>

\* genres carried by the last two titles of the owned-games list
ExtraGenres ==
  <<"Utilities", "Education", "Animation & Modeling", "Audio Production",
    "Design & Illustration", "Photo Editing", "Video Production">>

\* review counts, one per branch of lines 240-248
ReviewVolumes == <<0, 500, 5000, 20000, 60000, 200000>>

ReleaseDates == <<"12 Mar, 2026", "9 Nov, 2004", "Coming soon">>

\* str() of one decimal digit
DigitChar(d) ==
  CASE d = 0 -> "0" [] d = 1 -> "1" [] d = 2 -> "2" [] d = 3 -> "3"
    [] d = 4 -> "4" [] d = 5 -> "5" [] d = 6 -> "6" [] d = 7 -> "7"
    [] d = 8 -> "8" [] OTHER -> "9"

\* str(app_id)
RECURSIVE AppIdStr(_)
AppIdStr(app_id) ==
  IF app_id < 10 THEN << DigitChar(app_id) >>
  ELSE AppIdStr(app_id \div 10) \o << DigitChar(app_id % 10) >>

\* the catalog's further titles, app ids above 100: the number of genres
\* and categories, the review count, the critic score, the price and the
\* release date vary with the id; even ids are discounted by half
CatalogData(app_id) ==
  LET k == app_id - 100
      initial == 500 * (1 + (k % 6))
      discounted == k % 2 = 0
  IN [name |-> <<"Z">> \o AppIdStr(app_id), type |-> "game",
      genres |-> SubSeq(CommonGenres, 1, 4 + (k % 7)),
      categories |-> SubSeq(AllCategories, 1, k % 9),
      has_recommendations |-> k % 11 # 0,
      total |-> ReviewVolumes[1 + (k % 6)],
      metacritic |-> IF k % 5 = 0 THEN 50 + 15 * (k % 4) ELSE 0,
      has_price |-> k % 13 # 0,
      initial |-> initial,
      final |-> IF discounted THEN initial \div 2 ELSE initial,
      discount_percent |-> IF discounted THEN 50 ELSE 0,
      release_date |-> ReleaseDates[1 + (k % 3)]]

StoreData(app_id, ver) ==
  CASE app_id = 10 ->
         [name |-> <<"T", "h", "e", " ", "P", "i", "t">>, type |-> "game",
          genres |-> CommonGenres \o <<"Gore">>,
          categories |-> AllCategories,
          has_recommendations |-> TRUE, total |-> 0, metacritic |-> 0,
          has_price |-> TRUE, initial |-> 2000,
          final |-> IF ver = 0 THEN 1000 ELSE 2000,
          discount_percent |-> IF ver = 0 THEN 50 ELSE 0,
          release_date |-> "12 Mar, 2026"]
    [] app_id = 20 ->
         [name |-> <<"O", "r", "b">>, type |-> "game",
          genres |-> CommonGenres \o
                     <<"Free to Play", "Early Access", "Violent", "Nudity">>,
          categories |-> AllCategories,
          has_recommendations |-> TRUE, total |-> 500, metacritic |-> 95,
          has_price |-> TRUE, initial |-> 4000, final |-> 4000,
          discount_percent |-> 0, release_date |-> "9 Nov, 2004"]
    [] app_id = 30 ->
         [name |-> <<"P", "i", "t", ":", " ", "R", "e", "b", "o", "r", "n">>, type |-> "game",
          genres |-> CommonGenres,
          categories |-> AllCategories,
          has_recommendations |-> TRUE, total |-> 200000, metacritic |-> 0,
          has_price |-> TRUE, initial |-> 1000, final |-> 1000,
          discount_percent |-> 0, release_date |-> "TBA"]
    [] app_id = 40 ->
         [name |-> <<"A", "l", "p", "h", "a">>, type |-> "game",
          genres |-> CommonGenres \o
                     <<"Free to Play", "Early Access", "Violent">>,
          categories |-> AllCategories,
          has_recommendations |-> TRUE, total |-> 60000, metacritic |-> 88,
          has_price |-> FALSE, initial |-> 0, final |-> 0,
          discount_percent |-> 0, release_date |-> "9 Nov, 2004"]
    [] app_id = 50 ->
         [name |-> <<"B", "e", "t", "a">>, type |-> "game",
          genres |-> CommonGenres \o <<"Nudity">>,
          categories |-> <<"Single-player", "Multi-player">>,
          has_recommendations |-> FALSE, total |-> 0, metacritic |-> 0,
          has_price |-> TRUE, initial |-> 500, final |-> 500,
          discount_percent |-> 0, release_date |-> "Coming soon"]
    [] app_id = 60 ->
         [name |-> <<"D", "e", "l", "t", "a">>, type |-> "game",
          genres |-> CommonGenres \o <<"Gore">> \o ExtraGenres,
          categories |-> <<"Single-player">>,
          has_recommendations |-> TRUE, total |-> 20000, metacritic |-> 0,
          has_price |-> TRUE, initial |-> 3000, final |-> 3000,
          discount_percent |-> 0, release_date |-> "9 Nov, 2004"]
    [] app_id = 70 ->
         [name |-> <<"G", "a", "m", "m", "a", " ", "-", " ", "M", "a", "p", " ", "P", "a", "c", "k">>, type |-> "dlc",
          genres |-> CommonGenres \o ExtraGenres,
          categories |-> <<"Single-player", "Downloadable Content">>,
          has_recommendations |-> TRUE, total |-> 5000, metacritic |-> 0,
          has_price |-> TRUE, initial |-> 1500, final |-> 1500,
          discount_percent |-> 0, release_date |-> "12 Mar, 2026"]
    [] OTHER -> CatalogData(app_id)

\* the app ids of the profile's owned-games list, in the order it lists them
OwnedPool == <<40, 50, 10, 60, 70>>

\* cumulative minutes a history record may carry
Playtimes == {0, 60, 300}

\* the candidate list of _find_matching_games_parallel (a sample of it, with
\* a repeated id as in the source's list)
popular_games_list == <<10, 20, 30, 10>>

\* list(set(popular_games))
popular_games == Range(popular_games_list)

\* a longer sample of the candidate list
popular_games_wide == popular_games \cup (101..(100 + CatalogCount))

(***************************************************************************)
(* The cache: game_cache is the dict in insertion order, one entry         *)
(* [key, data, cached_at] per key; cache_file is the JSON file.            *)
(***************************************************************************)
None == [is_none |-> TRUE]

\* an exception leaving a call
Raised == [raised |-> TRUE]

EndTok == [end |-> TRUE]

NoFile == [exists |-> FALSE, content |-> << >>]

CacheKeys(cache) == { cache[i].key : i \in DOMAIN cache }

\* self.game_cache[cache_key]
CacheEntry(cache, key) ==
  cache[CHOOSE i \in DOMAIN cache : cache[i].key = key]

\* self.game_cache[cache_key] = {'data': details, 'cached_at': now}
CachePut(cache, key, details, at) ==
  LET e == [key |-> key, data |-> details, cached_at |-> at]
  IN IF key \in CacheKeys(cache)
     THEN [ i \in DOMAIN cache |-> IF cache[i].key = key THEN e ELSE cache[i] ]
     ELSE Append(cache, e)

\* json.dump(self.game_cache, f): the text written for the dict
Dump(cache) == cache \o << EndTok >>

\* open(self.cache_file, 'w'): the file exists and is empty
Truncated == [exists |-> TRUE, content |-> << >>]

\* the file after text is written at offset 0 of its current content
WriteAtStart(file, text) ==
  [exists |-> TRUE,
   content |-> text \o SubSeq(file.content, Len(text) + 1, Len(file.content))]

\* json.load: the dict of a well-formed file, the empty dict on any error
ParseFile(file) ==
  LET c == file.content
  IN IF /\ Len(c) >= 1
        /\ c[Len(c)] = EndTok
        /\ \A i \in 1..(Len(c) - 1) : c[i] # EndTok
     THEN SubSeq(c, 1, Len(c) - 1)
     ELSE << >>

\* {k: v for k, v in cache.items() if now - v['cached_at'] < cache_duration}
RECURSIVE FreshEntries(_, _)
FreshEntries(s, at) ==
  IF s = << >> THEN << >>
  ELSE IF at - s[1].cached_at < cache_duration
       THEN << s[1] >> \o FreshEntries(Tail(s), at)
       ELSE FreshEntries(Tail(s), at)

_load_cache(file, at) ==
  IF file.exists THEN FreshEntries(ParseFile(file), at) ELSE << >>

\* _save_cache run without interruption: open, dump, close
_save_cache(cache) == WriteAtStart(Truncated, Dump(cache))


(***************************************************************************)
(* Python list and Counter operations                                      *)
(***************************************************************************)
Min(a, b) == IF a <= b THEN a ELSE b

Max(a, b) == IF a >= b THEN a ELSE b

\* s[:n]
Take(s, n) == SubSeq(s, 1, Min(n, Len(s)))

\* list.sort(key=..., reverse=...): key[i] is the key of s[i].  The sort is
\* stable in both directions: equal keys keep their original order.
SortedBy(s, key, reverse) ==
  LET n == Len(s)
      Before(j, i) ==
        \/ IF reverse THEN key[j] > key[i] ELSE key[j] < key[i]
        \/ key[j] = key[i] /\ j < i
      pos == [ i \in 1..n |-> 1 + Cardinality({ j \in 1..n : Before(j, i) }) ]
  IN [ q \in 1..n |-> s[CHOOSE i \in 1..n : pos[i] = q] ]

\* the list and its keys are computed once, then sorted
StableSort(s, key, reverse) ==
  CHOOSE sorted \in { SortedBy(sv, kv, reverse) : sv \in {s}, kv \in {key} } :
    TRUE

\* the keys of Counter(s), in order of first occurrence
RECURSIVE DistinctFrom(_, _, _)
DistinctFrom(s, i, acc) ==
  IF i > Len(s) THEN acc
  ELSE DistinctFrom(s, i + 1,
                    IF \E j \in DOMAIN acc : acc[j] = s[i] THEN acc
                    ELSE Append(acc, s[i]))

Distinct(s) == DistinctFrom(s, 1, << >>)

Count(s, x) == Cardinality({ i \in DOMAIN s : s[i] = x })

\* [x for x, count in Counter(s).most_common(n)]
MostCommon(s, n) ==
  LET d == Distinct(s)
      key == [ i \in DOMAIN d |-> Count(s, d[i]) ]
  IN Take(StableSort(d, key, TRUE), n)

\* sum(w(x) for x in S) for a function w
RECURSIVE SumOver(_, _)
SumOver(S, w) ==
  IF S = {} THEN 0
  ELSE LET x == CHOOSE y \in S : TRUE
       IN w[x] + SumOver(S \ {x}, w)

\* round(num / den) for num >= 0, den > 0: Python 3 rounds a tie to the
\* even neighbour
RoundHalfEven(num, den) ==
  LET q == num \div den
      r == num % den
  IN IF 2 * r < den THEN q
     ELSE IF 2 * r > den THEN q + 1
     ELSE IF q % 2 = 0 THEN q ELSE q + 1

(***************************************************************************)
(* Preference extraction: get_recommendations steps 2 to 6                 *)
(***************************************************************************)
\* PlayedGames with >= in place of >
PlayedGames_AllowZero(owned_games) ==
  LET Played(g) == g.playtime_forever >= 0
  IN SelectSeq(owned_games, Played)

\* [g for g in owned_games if g.get('playtime_forever', 0) > 0]
PlayedGames(owned_games) ==
  LET Played(g) == g.playtime_forever > 0
  IN SelectSeq(owned_games, Played)

\* sum(g['playtime_forever'] for g in played_games)
RECURSIVE TotalPlaytime(_)
TotalPlaytime(games) ==
  IF games = << >> THEN 0
  ELSE games[1].playtime_forever + TotalPlaytime(Tail(games))

\* the selection with >= in place of >: it keeps the games at the mean
AboveAverageGames_AtLeast(played_games) ==
  LET total == TotalPlaytime(played_games)
      Above(g) == g.playtime_forever * Len(played_games) >= total
      above == SelectSeq(played_games, Above)
      key == [ i \in DOMAIN above |-> above[i].playtime_forever ]
  IN StableSort(above, key, TRUE)

\* [g for g in played_games if g['playtime_forever'] > average_playtime],
\* then sorted by playtime, longest first.  average_playtime is
\* total / len; p > total / len is decided as p * len > total.
AboveAverageGames(played_games) ==
  LET total == TotalPlaytime(played_games)
      Above(g) == g.playtime_forever * Len(played_games) > total
      above == SelectSeq(played_games, Above)
      key == [ i \in DOMAIN above |-> above[i].playtime_forever ]
  IN StableSort(above, key, TRUE)

\* above_average_games[:30]
TopPlayed(played_games) == Take(AboveAverageGames(played_games), TopPlayedN)

\* round(average_playtime / 60, 1), in tenths of an hour
AveragePlaytimeTenths(played_games) ==
  RoundHalfEven(TotalPlaytime(played_games), 6 * Len(played_games))

\* tag_weights[tag] = tag_weights.get(tag, 0) + weight, for each genre
RECURSIVE AddWeights(_, _, _)
AddWeights(tw, genres, weight) ==
  IF genres = << >> THEN tw
  ELSE LET tag == genres[1]
           tw1 == IF tag \in DOMAIN tw
                  THEN [tw EXCEPT ![tag] = @ + weight]
                  ELSE [ t \in DOMAIN tw \cup {tag} |->
                           IF t = tag THEN weight ELSE tw[t] ]
       IN AddWeights(tw1, Tail(genres), weight)

\* step 6: tag_counts.most_common(20)
TopTags(user_tags) == MostCommon(user_tags, TopTagsN)

\* step 6: category_counts.most_common(15)
TopCategories(user_categories) == MostCommon(user_categories, TopCategoriesN)

(***************************************************************************)
(* The candidate scorer: _fetch_and_process_game after the detail lookup   *)
(***************************************************************************)
\* dateutil parser.parse(release_date).timestamp() in hours; -1 stands for
\* the exception the parser raises on text that is no date
ParseDate(release_date) ==
  CASE release_date = "12 Mar, 2026" -> 8900
    [] release_date = "9 Nov, 2004" -> 100
    [] OTHER -> -1

\* the synthesized rating of lines 236-248
SteamRating(details) ==
  IF details.has_recommendations
  THEN LET total_reviews == details.total
       IN IF total_reviews > 100000 THEN 90
          ELSE IF total_reviews > 50000 THEN 85
          ELSE IF total_reviews > 10000 THEN 80
          ELSE IF total_reviews > 1000 THEN 75
          ELSE 70
  ELSE 0

\* rating = metacritic_score if metacritic_score > 0 else steam_rating
DerivedRating(details) ==
  IF details.metacritic > 0 THEN details.metacritic ELSE SteamRating(details)

\* NormalizedScore without the cap of min
NormalizedScore_Uncapped(total) == RoundHalfEven(total, 10)

\* NormalizedScore with a tie rounded up
NormalizedScore_HalfUp(total) == Min(10, (total + 5) \div 10)

\* min(10, round((weighted_score + category_score) / 10))
NormalizedScore(total) == Min(10, RoundHalfEven(total, 10))

\* weighted_score + category_score of lines 222-227
OverlapTotal(details, target_tags, target_categories, tag_weights) ==
  LET matching_tags == Range(details.genres) \cap Range(target_tags)
      matching_categories ==
        Range(details.categories) \cap Range(target_categories)
      w == [ t \in matching_tags |->
               IF t \in DOMAIN tag_weights THEN tag_weights[t] ELSE 1 ]
  IN SumOver(matching_tags, w) + Cardinality(matching_categories)

NoRange == << >>

\* lines 201-336: the CandidateResult of a fetched detail, or None
ProcessDetails(app_id, details, target_tags, target_categories, tag_weights, min_rating, price_range, show_recent_only, at) ==
  LET game_name == details.name
      normalized_score ==
        NormalizedScore(OverlapTotal(details, target_tags, target_categories,
                                     tag_weights))
      steam_rating == SteamRating(details)
      rating == DerivedRating(details)
      original_price == IF details.has_price THEN details.initial ELSE 0
      current_price == IF details.has_price THEN details.final ELSE 0
      discount_percent ==
        IF details.has_price THEN details.discount_percent ELSE 0
      on_sale == details.has_price /\ details.discount_percent > 0
      price_ok ==
        \/ price_range = NoRange
        \/ IF on_sale
           THEN price_range[1] <= current_price /\ current_price <= price_range[2]
           ELSE price_range[1] <= original_price /\ original_price <= price_range[2]
      effective_min_rating ==
        IF on_sale THEN Max(0, min_rating - SaleGrace) ELSE min_rating
      parsed == IF details.release_date = "TBA" THEN -1
                ELSE ParseDate(details.release_date)
      release_timestamp == IF parsed >= 0 THEN parsed ELSE 0
      too_old == /\ parsed >= 0
                 /\ show_recent_only
                 /\ release_timestamp < at - RecentHours
  IN IF ~ _is_base_game(game_name, details.type) THEN None
     ELSE IF normalized_score = 0 THEN None
     ELSE IF ~ price_ok THEN None
     ELSE IF rating > 0 /\ rating < effective_min_rating THEN None
     ELSE IF too_old THEN None
     ELSE [name |-> game_name,
           base_name |-> BaseName(game_name),
           app_id |-> app_id,
           steam_rating |-> steam_rating,
           metacritic_rating |-> details.metacritic,
           rating |-> rating,
           price |-> original_price,
           current_price |-> current_price,
           discount_percent |-> discount_percent,
           on_sale |-> on_sale,
           tags |-> Range(details.genres) \cap Range(target_tags),
           match_score |-> normalized_score,
           release_timestamp |-> release_timestamp]

(***************************************************************************)
(* Dedup of the as_completed loop and the assembly of steps 8 and 9        *)
(***************************************************************************)
\* IsDuplicate with the keys compared as they are, not normalized
IsDuplicate_Unnormalized(base_name, seen) == base_name \in DOMAIN seen

\* the is_duplicate loop over seen_base_games.keys()
IsDuplicate(base_name, seen) ==
  \E existing_name \in DOMAIN seen :
     Normalize(base_name) = Normalize(existing_name)

\* the sort key of step 9 for one result
\* SortKey with the derived rating in the last branch
SortKey_DerivedRating(g, sort_by, sale) ==
  CASE sort_by = "price" -> IF sale THEN g.current_price ELSE g.price
    [] sort_by = "match" -> g.match_score
    [] sort_by = "release_date" -> g.release_timestamp
    [] OTHER -> g.rating

\* the key of step 9 (lines 138-149) for one bucket
SortKey(g, sort_by, sale) ==
  CASE sort_by = "price" -> IF sale THEN g.current_price ELSE g.price
    [] sort_by = "match" -> g.match_score
    [] sort_by = "release_date" -> g.release_timestamp
    [] OTHER -> g.steam_rating

\* step 9 on one bucket
SortBucket(games, sort_by, sale) ==
  LET key == [ i \in DOMAIN games |-> SortKey(games[i], sort_by, sale) ]
  IN StableSort(games, key, sort_by # "price")

\* step 8: the on-sale bucket
OnSaleGames(all_recommendations) ==
  LET Keep(g) == g.on_sale /\ g.match_score >= SaleMinScore
  IN SelectSeq(all_recommendations, Keep)

\* step 8: the regular bucket
RegularGames(all_recommendations) ==
  LET Keep(g) == ~ g.on_sale /\ g.match_score >= RegularMinScore
  IN SelectSeq(all_recommendations, Keep)


(***************************************************************************)
(* State                                                                   *)
(***************************************************************************)
VARIABLES
  now,               \* the wall clock, in hours
  src_ver,           \* the version of the store's data
  cache_file,        \* game_cache.json
  game_cache,        \* self.game_cache
  pc,                \* where get_recommendations stands
  req,               \* the arguments of the running request
  top_played,        \* top_played of step 4
  ext_i,             \* the index of the loop of step 5, 1-based
  user_tags,         \* user_tags of step 5
  user_categories,   \* user_categories of step 5
  tag_weights,       \* tag_weights of step 5
  top_tags,          \* top_tags of step 6
  top_categories,    \* top_categories of step 6
  task,              \* the submitted scorer invocations, by app id
  collected,         \* the futures the as_completed loop has consumed
  seen_base_games,   \* seen_base_games of the as_completed loop
  recommendations,   \* recommendations of the as_completed loop
  sort_by,           \* the sort_by argument, fixed when step 9 reads it
  response,          \* what get_recommendations returned
  fetch_log,         \* history: the calls of steam_api.get_game_details
  last_lookup,       \* history: the last call of _get_game_details_cached
                     \* for each cache key
  stored             \* history: the last detail put under each cache key

vars == << now, src_ver, cache_file, game_cache, pc, req, top_played, ext_i,
           user_tags, user_categories, tag_weights, top_tags, top_categories,
           task, collected, seen_base_games, recommendations, sort_by,
           response, fetch_log, last_lookup, stored >>

envVars == << now, src_ver >>

cacheVars == << cache_file, game_cache >>

logVars == << fetch_log, last_lookup, stored >>

extractVars == << top_played, ext_i, user_tags, user_categories, tag_weights >>

signalVars == << top_tags, top_categories >>

fanoutVars == << task, collected, seen_base_games, recommendations >>

NoMap == [ x \in {} |-> 0 ]

NoTask == [ c \in {} |-> None ]

NoRequest == [owned_games |-> << >>, min_rating |-> 0,
              price_range |-> NoRange, show_recent_only |-> FALSE]

\* the owned-games lists the profile source may return, up to n records
HistoriesUpTo(n) ==
  UNION { [ 1..k -> Playtimes ] : k \in 0..Min(n, Len(OwnedPool)) }

Histories == HistoriesUpTo(MaxOwned)

WideHistories == HistoriesUpTo(MaxOwnedWide)

\* the histories whose last record has 60 minutes and all others 300
ScoreHistories ==
  { h \in WideHistories :
      /\ h # << >>
      /\ \A i \in DOMAIN h : h[i] = IF i = Len(h) THEN 60 ELSE 300 }

OwnedGames(h) ==
  [ i \in DOMAIN h |-> [appid |-> OwnedPool[i], playtime_forever |-> h[i]] ]

MinRatings == {0, 95}

PriceRanges == { NoRange, <<0, 1500>> }

\* the sort_by values of the form, and one value the form does not offer
SortModes == {"match", "price", "release_date", "rating", "popularity"}

ErrNoOwnedGames ==
  [error |-> "Could not retrieve games. Make sure your profile is public!"]

ErrNoEngagementData == [error |-> "No games with playtime found!"]

\* app.py lines 51-59: what the route answers when get_recommendations raises
ErrUnexpected == [error |-> "An error occurred"]

\* the cache files a starting process may find: none, or the file a run
\* TickHours earlier left behind
InitFiles ==
  { NoFile,
    _save_cache(CachePut(<< >>, AppIdStr(30), StoreData(30, 0), StartTime - TickHours)) }

\* the state after GameRecommender() (lines 10-14), no request made yet
Init ==
  /\ now = StartTime
  /\ src_ver = 0
  /\ cache_file \in InitFiles
  /\ game_cache = _load_cache(cache_file, now)
  /\ pc = "idle"
  /\ req = NoRequest
  /\ top_played = << >>
  /\ ext_i = 1
  /\ user_tags = << >>
  /\ user_categories = << >>
  /\ tag_weights = NoMap
  /\ top_tags = << >>
  /\ top_categories = << >>
  /\ task = NoTask
  /\ collected = {}
  /\ seen_base_games = NoMap
  /\ recommendations = << >>
  /\ sort_by = "unset"
  /\ response = None
  /\ fetch_log = {}
  /\ last_lookup = NoMap
  /\ stored = [ k \in CacheKeys(game_cache) |-> CacheEntry(game_cache, k) ]

(***************************************************************************)
(* _get_game_details_cached (lines 39-58).  fetched is what                *)
(* steam_api.get_game_details returns if it is called: the store's data,   *)
(* or None on any failure (steam_api.py lines 51-67).                      *)
(***************************************************************************)
\* the fetches of this run that failed
FailedFetches == { f \in fetch_log : ~ f.ok }

\* what requests.get and response.json() do in one call of the store
FetchOutcomes ==
  IF Cardinality(FailedFetches) < MaxFailures
  THEN {"ok", "no_success", "exception"}
  ELSE {"ok"}

\* get_game_details with the exception left uncaught
get_game_details_Uncaught(app_id, outcome) ==
  CASE outcome = "ok" -> StoreData(app_id, src_ver)
    [] outcome = "no_success" -> None
    [] OTHER -> Raised

\* steam_api.get_game_details (lines 42-67): the data on success, None when
\* the answer carries no success and when anything in the try block raises
get_game_details(app_id, outcome) ==
  CASE outcome = "ok" -> StoreData(app_id, src_ver)
    [] outcome = "no_success" -> None
    [] OTHER -> None

FetchResults(app_id) ==
  { get_game_details(app_id, outcome) : outcome \in FetchOutcomes }

CacheHit(app_id) == AppIdStr(app_id) \in CacheKeys(game_cache)

\* the value the call returns
CachedDetails(app_id, fetched) ==
  IF CacheHit(app_id)
  THEN CacheEntry(game_cache, AppIdStr(app_id)).data
  ELSE fetched

\* f with f[k] set to v, k added to its domain if need be
MapSet(f, k, v) == [ x \in DOMAIN f \cup {k} |-> IF x = k THEN v ELSE f[x] ]

\* the history of the call
LogLookup(app_id, fetched, by) ==
  LET cache_key == AppIdStr(app_id)
  IN IF CacheHit(app_id)
     THEN /\ last_lookup' =
               MapSet(last_lookup, cache_key,
                      [at |-> now, hit |-> TRUE,
                       cached_at |-> CacheEntry(game_cache, cache_key).cached_at,
                       data |-> CacheEntry(game_cache, cache_key).data])
          /\ UNCHANGED << fetch_log, stored >>
     ELSE /\ last_lookup' =
               MapSet(last_lookup, cache_key,
                      [at |-> now, hit |-> FALSE, cached_at |-> now,
                       data |-> fetched])
          /\ fetch_log' = fetch_log \cup
               {[app_id |-> app_id, by |-> by,
                 ok |-> fetched \notin {None, Raised}]}
          /\ stored' =
               IF fetched \in {None, Raised} THEN stored
               ELSE MapSet(stored, cache_key,
                           [key |-> cache_key, data |-> fetched,
                            cached_at |-> now])

\* lines 44-55: the dict after the call
CacheAfter(app_id, fetched) ==
  IF CacheHit(app_id) \/ fetched \in {None, Raised}
  THEN game_cache
  ELSE CachePut(game_cache, AppIdStr(app_id), fetched, now)

\* the whole call, run by one thread with no other thread in the cache
GetDetailsCached(app_id, fetched, by) ==
  /\ LogLookup(app_id, fetched, by)
  /\ game_cache' = CacheAfter(app_id, fetched)
  /\ cache_file' = IF game_cache' = game_cache
                   THEN cache_file
                   ELSE _save_cache(game_cache')

(***************************************************************************)
(* get_recommendations, steps 1 to 4 (lines 63-93)                         *)
(***************************************************************************)
RequestFrom(HS, RecentOnly) ==
  /\ pc = "idle"
  /\ \E h \in HS, min_rating \in MinRatings,
        price_range \in PriceRanges, show_recent_only \in RecentOnly :
       LET owned_games == OwnedGames(h)
           played_games == PlayedGames(owned_games)
       IN /\ req' = [owned_games |-> owned_games, min_rating |-> min_rating,
                     price_range |-> price_range,
                     show_recent_only |-> show_recent_only]
          /\ IF owned_games = << >>
             THEN /\ response' = ErrNoOwnedGames
                  /\ pc' = "done"
                  /\ UNCHANGED top_played
             ELSE IF played_games = << >>
             THEN /\ response' = ErrNoEngagementData
                  /\ pc' = "done"
                  /\ UNCHANGED top_played
             ELSE /\ top_played' = TopPlayed(played_games)
                  /\ pc' = "extract"
                  /\ UNCHANGED response
  /\ ext_i' = 1
  /\ user_tags' = << >>
  /\ user_categories' = << >>
  /\ tag_weights' = NoMap
  /\ UNCHANGED << envVars, cacheVars, signalVars, fanoutVars, sort_by, logVars >>

\* a request with the default show_recent_only
Request == RequestFrom(Histories, {FALSE})

\* a request of a user with a longer owned-games list
RequestWide == RequestFrom(WideHistories, BOOLEAN)

\* a request of a user with one least-played title and up to four favourites
RequestScore == RequestFrom(ScoreHistories, BOOLEAN)

(***************************************************************************)
(* One iteration of the loop of step 5 (lines 95-110)                      *)
(***************************************************************************)
ExtractStep ==
  /\ pc = "extract"
  /\ ext_i <= Len(top_played)
  /\ \E fetched \in FetchResults(top_played[ext_i].appid) :
       LET app_id == top_played[ext_i].appid
           details == CachedDetails(app_id, fetched)
           weight == Len(top_played) - (ext_i - 1)
       IN /\ GetDetailsCached(app_id, fetched, "extract")
          /\ IF details = Raised
             THEN \* nothing in get_recommendations catches it
                  /\ pc' = "done"
                  /\ response' = ErrUnexpected
                  /\ UNCHANGED << user_tags, tag_weights, user_categories >>
             ELSE IF details # None
             THEN /\ user_tags' = user_tags \o details.genres
                  /\ tag_weights' =
                       AddWeights(tag_weights, details.genres, weight)
                  /\ user_categories' = user_categories \o details.categories
                  /\ UNCHANGED << pc, response >>
             ELSE UNCHANGED << user_tags, tag_weights, user_categories, pc,
                               response >>
  /\ ext_i' = ext_i + 1
  /\ UNCHANGED << envVars, req, top_played, signalVars, fanoutVars, sort_by >>

(***************************************************************************)
(* Step 6 (lines 112-119)                                                  *)
(***************************************************************************)
SelectSignals ==
  /\ pc = "extract"
  /\ ext_i > Len(top_played)
  /\ top_tags' = TopTags(user_tags)
  /\ top_categories' = TopCategories(user_categories)
  /\ pc' = "signals"
  /\ UNCHANGED << envVars, cacheVars, req, extractVars, fanoutVars, sort_by,
                  response, logVars >>

(***************************************************************************)
(* The submission of one scorer invocation per candidate (lines 341-400)   *)
(***************************************************************************)
QueuedTask == [st |-> "queued", details |-> None, buf |-> << >>, result |-> None]

SubmitFrom(candidates) ==
  /\ pc = "signals"
  /\ task' = [ c \in candidates |-> QueuedTask ]
  /\ collected' = {}
  /\ seen_base_games' = NoMap
  /\ recommendations' = << >>
  /\ pc' = "fanout"
  /\ UNCHANGED << envVars, cacheVars, req, extractVars, signalVars, sort_by,
                  response, logVars >>

SubmitAll == SubmitFrom(popular_games)

\* the submission of the longer sample of the candidate list
SubmitWide == SubmitFrom(popular_games_wide)

(***************************************************************************)
(* A pool worker runs _fetch_and_process_game for candidate c.  The worker *)
(* threads interleave between the steps below: the dict insert of line 52, *)
(* and in _save_cache the open of line 34, the dump of line 35 into the    *)
(* file object's buffer and the close that writes the buffer out.          *)
(***************************************************************************)
owned_app_ids == { req.owned_games[i].appid : i \in DOMAIN req.owned_games }

Running == { c \in DOMAIN task : task[c].st \in {"open", "dump", "close"} }

Score(app_id, details) ==
  ProcessDetails(app_id, details, top_tags, top_categories, tag_weights,
                 req.min_rating, req.price_range, req.show_recent_only, now)

\* SkipsLookup with the owned test applied to played games only
SkipsLookup_PlayedOnly(app_id) ==
  \E i \in DOMAIN req.owned_games :
     /\ req.owned_games[i].appid = app_id
     /\ req.owned_games[i].playtime_forever > 0

\* line 193: the scorer leaves before any lookup
SkipsLookup(app_id) == app_id \in owned_app_ids

\* lines 193-199 and 39-55: up to the insert into game_cache
TaskStart(c) ==
  /\ pc = "fanout"
  /\ task[c].st = "queued"
  /\ Cardinality(Running) < max_workers
  /\ IF SkipsLookup(c)
     THEN /\ task' = [task EXCEPT ![c].st = "done"]
          /\ UNCHANGED << game_cache, logVars >>
     ELSE \E fetched \in FetchResults(c) :
            LET details == CachedDetails(c, fetched)
            IN /\ LogLookup(c, fetched, "scorer")
               /\ game_cache' = CacheAfter(c, fetched)
               /\ task' =
                    IF details \in {None, Raised}
                    THEN [task EXCEPT ![c].st = "done", ![c].result = details]
                    ELSE IF CacheHit(c)
                    THEN [task EXCEPT ![c].st = "done",
                                      ![c].result = Score(c, details)]
                    ELSE [task EXCEPT ![c].st = "open",
                                      ![c].details = details]
  /\ UNCHANGED << envVars, cache_file, pc, req, extractVars, signalVars,
                  collected, seen_base_games, recommendations, sort_by,
                  response >>

\* line 34: open(self.cache_file, 'w') truncates the file
TaskOpen(c) ==
  /\ pc = "fanout"
  /\ task[c].st = "open"
  /\ cache_file' = Truncated
  /\ task' = [task EXCEPT ![c].st = "dump"]
  /\ UNCHANGED << envVars, game_cache, pc, req, extractVars, signalVars,
                  collected, seen_base_games, recommendations, sort_by,
                  response, logVars >>

\* line 35: json.dump writes the dict as it is now into the buffer
TaskDump(c) ==
  /\ pc = "fanout"
  /\ task[c].st = "dump"
  /\ task' = [task EXCEPT ![c].st = "close", ![c].buf = Dump(game_cache)]
  /\ UNCHANGED << envVars, cacheVars, pc, req, extractVars, signalVars,
                  collected, seen_base_games, recommendations, sort_by,
                  response, logVars >>

\* the end of the with block writes the buffer at the start of the file;
\* then lines 58 and 201-336 compute the result
TaskClose(c) ==
  /\ pc = "fanout"
  /\ task[c].st = "close"
  /\ cache_file' = WriteAtStart(cache_file, task[c].buf)
  /\ task' = [task EXCEPT ![c].st = "done", ![c].buf = << >>,
                          ![c].result = Score(c, task[c].details)]
  /\ UNCHANGED << envVars, game_cache, pc, req, extractVars, signalVars,
                  collected, seen_base_games, recommendations, sort_by,
                  response, logVars >>

(***************************************************************************)
(* One iteration of the as_completed loop (lines 406-432) in the           *)
(* requesting thread: it takes any future that is done.                    *)
(***************************************************************************)
\* lines 407-432: the loop body for one future's result
Consume(result) ==
        IF result = Raised
        THEN \* future.result() raises what the invocation raised
             /\ pc' = "done"
             /\ response' = ErrUnexpected
             /\ UNCHANGED << seen_base_games, recommendations >>
        ELSE IF result # None
                /\ ~ IsDuplicate(result.base_name, seen_base_games)
        THEN /\ seen_base_games' =
                  [ b \in DOMAIN seen_base_games \cup {result.base_name} |->
                      IF b = result.base_name THEN result.name
                      ELSE seen_base_games[b] ]
             /\ recommendations' = Append(recommendations, result)
             /\ UNCHANGED << pc, response >>
        ELSE UNCHANGED << seen_base_games, recommendations, pc, response >>

Collect(c) ==
  /\ pc = "fanout"
  /\ task[c].st = "done"
  /\ c \notin collected
  /\ collected' = collected \cup {c}
  /\ Consume(task[c].result)
  /\ UNCHANGED << envVars, cacheVars, req, extractVars, signalVars, task,
                  sort_by, logVars >>

(***************************************************************************)
(* The fan-out with one worker at a time: the invocation for candidate c   *)
(* runs from its start to its return with no other thread in between, and  *)
(* the as_completed loop takes its future at once.  The invocations        *)
(* complete by ascending or by descending app id.                          *)
(***************************************************************************)
SetMin(S) == CHOOSE x \in S : \A y \in S : x <= y

SetMax(S) == CHOOSE x \in S : \A y \in S : x >= y

NextToComplete ==
  LET remaining == DOMAIN task \ collected
  IN IF remaining = {} THEN {}
     ELSE IF collected = {} THEN {SetMin(remaining), SetMax(remaining)}
     ELSE IF SetMin(DOMAIN task) \in collected THEN {SetMin(remaining)}
     ELSE {SetMax(remaining)}

ScoreCollect(c) ==
  /\ pc = "fanout"
  /\ c \in NextToComplete
  /\ collected' = collected \cup {c}
  /\ IF SkipsLookup(c)
     THEN /\ task' = [task EXCEPT ![c].st = "done"]
          /\ Consume(None)
          /\ UNCHANGED << cacheVars, logVars >>
     ELSE LET fetched == get_game_details(c, "ok")
              details == CachedDetails(c, fetched)
              result == Score(c, details)
          IN /\ GetDetailsCached(c, fetched, "scorer")
             /\ task' = [task EXCEPT ![c].st = "done", ![c].result = result]
             /\ Consume(result)
  /\ UNCHANGED << envVars, req, extractVars, signalVars, sort_by >>

(***************************************************************************)
(* Steps 8 and 9 and the response (lines 133-158)                          *)
(***************************************************************************)
Assemble ==
  /\ pc = "fanout"
  /\ collected = DOMAIN task
  /\ \E mode \in SortModes :
       LET played_games == PlayedGames(req.owned_games)
           on_sale_games ==
             SortBucket(OnSaleGames(recommendations), mode, TRUE)
           regular_games ==
             SortBucket(RegularGames(recommendations), mode, FALSE)
       IN /\ sort_by' = mode
          /\ response' =
               [average_playtime |-> AveragePlaytimeTenths(played_games),
                above_average_count |-> Len(AboveAverageGames(played_games)),
                total_games |-> Len(played_games),
                top_tags |-> Take(top_tags, ResponseTagsN),
                regular_recommendations |->
                  Take(regular_games, MaxRecommendations),
                sale_recommendations |->
                  Take(on_sale_games, MaxRecommendations)]
  /\ pc' = "done"
  /\ UNCHANGED << envVars, cacheVars, req, extractVars, signalVars,
                  fanoutVars, logVars >>

(***************************************************************************)
(* One request served by a freshly constructed recommender                 *)
(***************************************************************************)
Next ==
  \/ Request
  \/ ExtractStep
  \/ SelectSignals
  \/ SubmitAll
  \/ \E c \in popular_games :
       TaskStart(c) \/ TaskOpen(c) \/ TaskDump(c) \/ TaskClose(c) \/ Collect(c)
  \/ Assemble

Spec == Init /\ [][Next]_vars

(***************************************************************************)
(* One request over the longer candidate list, one worker at a time        *)
(***************************************************************************)
NextScore ==
  \/ RequestScore
  \/ ExtractStep
  \/ SelectSignals
  \/ SubmitWide
  \/ \E c \in popular_games_wide : ScoreCollect(c)
  \/ Assemble

SpecScore == Init /\ [][NextScore]_vars

(***************************************************************************)
(* The preference extraction of one request, for the longer histories      *)
(***************************************************************************)
NextExtract ==
  \/ RequestWide
  \/ ExtractStep
  \/ SelectSignals

SpecExtract == Init /\ [][NextExtract]_vars

(***************************************************************************)
(* The cache of one long-running installation: lookups arrive while the    *)
(* clock advances and the store changes, and the process may be restarted  *)
(***************************************************************************)
\* the ids looked up
LookupIds == {10, 30}

\* one call of _get_game_details_cached
CacheLookup(app_id) ==
  /\ \E fetched \in FetchResults(app_id) :
       GetDetailsCached(app_id, fetched, "lookup")
  /\ UNCHANGED << envVars, pc, req, extractVars, signalVars, fanoutVars,
                  sort_by, response >>

\* the wall clock advances
Tick ==
  /\ now < StartTime + MaxTicks * TickHours
  /\ now' = now + TickHours
  /\ UNCHANGED << src_ver, cacheVars, pc, req, extractVars, signalVars,
                  fanoutVars, sort_by, response, logVars >>

\* the store changes the price of app 10
SourceUpdate ==
  /\ src_ver = 0
  /\ src_ver' = 1
  /\ UNCHANGED << now, cacheVars, pc, req, extractVars, signalVars,
                  fanoutVars, sort_by, response, logVars >>

\* the process is started again: __init__ (lines 10-14) loads the file
Restart ==
  /\ game_cache' = _load_cache(cache_file, now)
  /\ UNCHANGED << envVars, cache_file, pc, req, extractVars, signalVars,
                  fanoutVars, sort_by, response, logVars >>

NextCache ==
  \/ \E app_id \in LookupIds : CacheLookup(app_id)
  \/ Tick
  \/ SourceUpdate
  \/ Restart

SpecCache == Init /\ [][NextCache]_vars


(***************************************************************************)
(* Properties                                                              *)
(***************************************************************************)
IsError(r) == DOMAIN r = {"error"}

IsSuccess(r) ==
  DOMAIN r = {"average_playtime", "above_average_count", "total_games",
              "top_tags", "regular_recommendations", "sale_recommendations"}

Responded == pc = "done"

\* no two entries of the list have the same normalized base-name key
DistinctKeys(games) ==
  \A i, j \in DOMAIN games :
     i # j => Normalize(games[i].base_name) # Normalize(games[j].base_name)

\* C1: whatever the order in which the scorer invocations complete and are
\* consumed, the list built by _find_matching_games_parallel never holds two
\* results with the same normalized base-name key, and neither does either
\* bucket of the response.
C1_NoTwoResultsShareKey ==
  /\ DistinctKeys(recommendations)
  /\ Responded /\ IsSuccess(response) =>
       /\ DistinctKeys(response.regular_recommendations)
       /\ DistinctKeys(response.sale_recommendations)

\* C1 witness: two scorer results with the same normalized key were both
\* consumed, and the later arrival was discarded.
C1_Witness ==
  /\ Responded
  /\ \E c, d \in collected :
       /\ c # d
       /\ task[c].result # None
       /\ task[d].result # None
       /\ task[c].result.base_name # task[d].result.base_name
       /\ Normalize(task[c].result.base_name) =
            Normalize(task[d].result.base_name)
       /\ task[c].result \in Range(recommendations)
       /\ task[d].result \notin Range(recommendations)

\* the entries json.load would give a process that read the file now
PersistedEntries == ParseFile(cache_file)

FanoutFinished ==
  /\ pc \in {"fanout", "done"}
  /\ task # NoTask
  /\ \A c \in DOMAIN task : task[c].st = "done"

\* C3: once every worker of the fan-out has finished, the cache file holds
\* exactly the entries of the in-memory cache.
C3_FileHoldsCacheAfterFanout ==
  FanoutFinished => PersistedEntries = game_cache

ScorerFailures == { f \in fetch_log : f.by = "scorer" /\ ~ f.ok }

\* C4: a candidate whose detail fetch failed during fan-out is excluded and
\* nothing else: it gets no cache entry and no result, every candidate is
\* evaluated and consumed before the response is built, every other
\* candidate that was looked up has the result the scorer computes for it,
\* and the response is a success response.
C4_FailedFetchOnlyExcludes ==
  ScorerFailures # {} =>
    /\ \A f \in ScorerFailures :
         /\ AppIdStr(f.app_id) \notin CacheKeys(game_cache)
         /\ task[f.app_id].st = "done"
         /\ task[f.app_id].result = None
         /\ \A i \in DOMAIN recommendations :
              recommendations[i].app_id # f.app_id
    /\ Responded =>
         /\ IsSuccess(response)
         /\ collected = popular_games
         /\ \A c \in popular_games :
              /\ task[c].st = "done"
              /\ (c \notin owned_app_ids /\ AppIdStr(c) \in CacheKeys(game_cache))
                   => task[c].result =
                        Score(c, CacheEntry(game_cache, AppIdStr(c)).data)

\* C4 witness: one fetch of the fan-out failed, another candidate was
\* fetched after it and is recommended in the response.
C4_Witness ==
  /\ Responded
  /\ IsSuccess(response)
  /\ ScorerFailures # {}
  /\ \E f \in fetch_log : f.by = "scorer" /\ f.ok
  /\ Len(response.regular_recommendations) +
       Len(response.sale_recommendations) > 0

\* C5: no recommended result is an owned item, whatever its usage, and the
\* scorer never looks an owned candidate up: it fetches nothing for it and
\* the cache holds it only if the extraction put it there.
C5_OwnedNeverRecommendedNorFetched ==
  /\ \A i \in DOMAIN recommendations :
       recommendations[i].app_id \notin owned_app_ids
  /\ Responded /\ IsSuccess(response) =>
       \A r \in Range(response.regular_recommendations) \cup
                Range(response.sale_recommendations) :
          r.app_id \notin owned_app_ids
  /\ \A f \in fetch_log : f.by = "scorer" => f.app_id \notin owned_app_ids
  /\ \A c \in popular_games \cap owned_app_ids :
       AppIdStr(c) \in CacheKeys(game_cache) =>
         [app_id |-> c, by |-> "extract", ok |-> TRUE] \in fetch_log

\* C5 witness: a candidate is owned with zero usage, its scorer invocation
\* finished without a result, another candidate was fetched by the scorer
\* and kept, and the request was answered.
C5_Witness ==
  /\ Responded
  /\ IsSuccess(response)
  /\ \E i \in DOMAIN req.owned_games :
       /\ req.owned_games[i].appid \in popular_games
       /\ req.owned_games[i].playtime_forever = 0
       /\ task[req.owned_games[i].appid].st = "done"
       /\ task[req.owned_games[i].appid].result = None
  /\ \E f \in fetch_log : f.by = "scorer" /\ f.ok
  /\ recommendations # << >>

\* C7: an empty history gives the NoOwnedGames error and a history with no
\* positive usage the NoEngagementData error, and nothing else does; the
\* error response is the message alone, no detail was looked up or fetched
\* and the cache and its file are as the constructor left them.
C7_ErrorsOnEmptyHistories ==
  Responded =>
    LET no_games == req.owned_games = << >>
        no_playtime ==
          /\ req.owned_games # << >>
          /\ \A i \in DOMAIN req.owned_games :
               req.owned_games[i].playtime_forever <= 0
    IN /\ no_games <=> response = ErrNoOwnedGames
       /\ no_playtime <=> response = ErrNoEngagementData
       /\ (no_games \/ no_playtime) <=> IsError(response)
       /\ IsError(response) =>
            /\ fetch_log = {}
            /\ last_lookup = NoMap
            /\ cache_file \in InitFiles
            /\ game_cache = _load_cache(cache_file, StartTime)
       /\ ~ IsError(response) => IsSuccess(response)

\* C7 witness: a history of owned but never played games was answered with
\* the NoEngagementData error.
C7_Witness ==
  /\ Responded
  /\ Len(req.owned_games) >= 2
  /\ response = ErrNoEngagementData

(***************************************************************************)
(* Properties of the cache over time (SpecCache)                           *)
(***************************************************************************)
\* C2: every lookup the cache answered was made no later than 24 hours
\* after the put of the entry it returned, and it returned the detail that
\* was put; a lookup made after the window expired is not answered from
\* the cache, also when the process kept running since the put.
C2_HitsOnlyWithinWindow ==
  \A k \in DOMAIN last_lookup :
     LET l == last_lookup[k]
     IN l.hit =>
          /\ l.at - l.cached_at <= cache_duration
          /\ l.data = stored[k].data

(***************************************************************************)
(* Properties of the preference extraction (SpecExtract)                   *)
(***************************************************************************)
\* the index of the first occurrence of tag t in user_tags
FirstAccumulated(t) ==
  CHOOSE i \in DOMAIN user_tags :
    user_tags[i] = t /\ \A j \in 1..(i - 1) : user_tags[j] # t

\* C9: the signal tags are the 20 tags of greatest accumulated weight, in
\* descending weight order, ties in the order of first accumulation; no tag
\* left out has a greater weight than a tag selected.
C9_TopTagsByWeight ==
  pc = "signals" =>
    /\ Len(top_tags) = Min(TopTagsN, Cardinality(DOMAIN tag_weights))
    /\ Range(top_tags) \subseteq DOMAIN tag_weights
    /\ \A i, j \in DOMAIN top_tags :
         i < j =>
           \/ tag_weights[top_tags[i]] > tag_weights[top_tags[j]]
           \/ /\ tag_weights[top_tags[i]] = tag_weights[top_tags[j]]
              /\ FirstAccumulated(top_tags[i]) < FirstAccumulated(top_tags[j])
    /\ \A t \in DOMAIN tag_weights \ Range(top_tags) :
         \A i \in DOMAIN top_tags :
            tag_weights[top_tags[i]] >= tag_weights[t]

(***************************************************************************)
(* Properties of the scores and the buckets (SpecScore)                    *)
(***************************************************************************)
Results == { task[c].result : c \in DOMAIN task } \ {None, Raised}

RegularOut == response.regular_recommendations

SaleOut == response.sale_recommendations

\* C6: every result of the scorer has an integer match_score from 0 to 10;
\* every entry of sale_recommendations is on sale with a score of at least
\* 2, every entry of regular_recommendations is not on sale with a score of
\* at least 4, so no entry has score 0; each list has at most 30 entries.
C6_ScoreRangeAndBuckets ==
  /\ \A i \in DOMAIN recommendations :
       recommendations[i].match_score \in 0..10
  /\ Responded /\ IsSuccess(response) =>
       /\ \A r \in Results : r.match_score \in 0..10
       /\ \A i \in DOMAIN SaleOut :
            SaleOut[i].on_sale /\ SaleOut[i].match_score >= 2
       /\ \A i \in DOMAIN RegularOut :
            ~ RegularOut[i].on_sale /\ RegularOut[i].match_score >= 4
       /\ Len(SaleOut) <= 30
       /\ Len(RegularOut) <= 30

\* C6 witness: more than 30 results qualified for each bucket and each list
\* was cut to 30, and a result whose rounded total is above 10 has score 10.
C6_Witness ==
  /\ Responded
  /\ IsSuccess(response)
  /\ Len(RegularGames(recommendations)) > 30
  /\ Len(OnSaleGames(recommendations)) > 30
  /\ Len(RegularOut) = 30
  /\ Len(SaleOut) = 30
  /\ \E i \in DOMAIN RegularOut :
       /\ RegularOut[i].match_score = 10
       /\ OverlapTotal(CacheEntry(game_cache, AppIdStr(RegularOut[i].app_id)).data,
                       top_tags, top_categories, tag_weights) > 105

\* a list of results is in descending order of field f
Descending(list, f) ==
  \A i \in 1..(Len(list) - 1) : list[i][f] >= list[i + 1][f]

RatingMode == sort_by \notin {"unset", "price", "match", "release_date"}

\* C8 as stated: in the rating sort mode each bucket is in descending order
\* of the derived rating (the critic score if above 0, else the rating
\* synthesized from the review volume).
C8_RatingModeByDerivedRating ==
  Responded /\ IsSuccess(response) /\ RatingMode =>
    Descending(RegularOut, "rating") /\ Descending(SaleOut, "rating")

\* C8 amended: in the rating sort mode each bucket is in descending order
\* of steam_rating, the rating synthesized from the review volume, whatever
\* the critic score.
C8_RatingModeBySteamRating ==
  Responded /\ IsSuccess(response) /\ RatingMode =>
    Descending(RegularOut, "steam_rating") /\ Descending(SaleOut, "steam_rating")

\* C8 witness: a response in the rating mode whose regular list holds a
\* result with a critic score that differs from its review-volume rating,
\* placed before a result of a greater derived rating.
C8_Witness ==
  /\ Responded
  /\ IsSuccess(response)
  /\ sort_by = "rating"
  /\ \E i \in 1..(Len(RegularOut) - 1) :
       /\ RegularOut[i].steam_rating > RegularOut[i + 1].steam_rating
       /\ RegularOut[i].rating < RegularOut[i + 1].rating

\* the overlap total of a result, from the detail the cache holds for it
TotalOf(r) ==
  OverlapTotal(CacheEntry(game_cache, AppIdStr(r.app_id)).data,
               top_tags, top_categories, tag_weights)

\* the integer nearest to total / 10, the even one of the two on a tie
NearestTiesToEven(total) ==
  CHOOSE q \in 0..(total \div 10 + 1) :
    LET d == IF 10 * q >= total THEN 10 * q - total ELSE total - 10 * q
    IN d < 5 \/ (d = 5 /\ q % 2 = 0)

\* the integer nearest to total / 10, the greater of the two on a tie
NearestTiesUp(total) ==
  CHOOSE q \in 0..(total \div 10 + 1) :
    LET d == IF 10 * q >= total THEN 10 * q - total ELSE total - 10 * q
    IN d < 5 \/ (d = 5 /\ 10 * q > total)

\* the results looked at in a state: the one appended last, and all of them
\* once the request is answered
ResultsInView ==
  (IF recommendations = << >> THEN {}
   ELSE {recommendations[Len(recommendations)]})
  \cup (IF Responded THEN Results ELSE {})

\* C10 as stated: match_score is min(10, round(total / 10)) with a total
\* ending in 5 rounded up, so a total of 45 gives 5.
C10_ScoreRoundsTiesUp ==
  \A r \in ResultsInView :
     /\ r.match_score = Min(10, NearestTiesUp(TotalOf(r)))
     /\ TotalOf(r) = 45 => r.match_score = 5

\* C10 amended: match_score is min(10, round(total / 10)) where round takes
\* a total ending in 5 to the even neighbour, so a total of 45 gives 4.
C10_ScoreRoundsTiesToEven ==
  \A r \in ResultsInView :
     /\ r.match_score = Min(10, NearestTiesToEven(TotalOf(r)))
     /\ TotalOf(r) = 45 => r.match_score = 4

\* C10 witness: the result appended last has an overlap total of 45 and a
\* match_score of 4.
C10_Witness ==
  /\ recommendations # << >>
  /\ TotalOf(recommendations[Len(recommendations)]) = 45
  /\ recommendations[Len(recommendations)].match_score = 4

(***************************************************************************)
(* Properties of the rating filter (SpecScore)                             *)
(***************************************************************************)
\* no critic score, and a review volume that is absent or 0
Unrated(details) ==
  /\ details.metacritic = 0
  /\ ~ details.has_recommendations \/ details.total = 0

\* the candidates the scorer looked up, with the detail it was given
LookedUp ==
  { c \in DOMAIN task :
      c \notin owned_app_ids /\ AppIdStr(c) \in CacheKeys(game_cache) }

DetailOf(c) == CacheEntry(game_cache, AppIdStr(c)).data

\* what the scorer returns for c when the request asks for min_rating m
ScoreWithMinRating(c, m) ==
  ProcessDetails(c, DetailOf(c), top_tags, top_categories, tag_weights, m,
                 req.price_range, req.show_recent_only, now)

\* C11: a candidate without critic score whose review volume is 0 or absent
\* has derived rating 0, and the rating filter does not exclude it: whenever
\* the scorer keeps it for min_rating 0 it keeps it for the min_rating of
\* the request, on sale or not, with rating 0.
C11_UnratedNeverFiltered ==
  Responded /\ IsSuccess(response) =>
    \A c \in LookedUp :
       Unrated(DetailOf(c)) =>
         /\ DerivedRating(DetailOf(c)) = 0
         /\ ScoreWithMinRating(c, 0) # None =>
              /\ task[c].result # None
              /\ task[c].result.rating = 0

(***************************************************************************)
(* Properties of a history without a game above the mean (Spec)            *)
(***************************************************************************)
\* the playtimes of the owned games that were played at all
PositivePlaytimes ==
  { req.owned_games[i].playtime_forever : i \in DOMAIN req.owned_games } \ {0}

\* at least one game was played and all played games have the same playtime
UniformHistory == Cardinality(PositivePlaytimes) = 1

\* C12: when the history has a played game and all played games have the
\* same playtime, no game is strictly above the mean: the top games and the
\* signals are empty, every candidate looked up has overlap total 0 and no
\* scorer returns a result, and the answer is the success response with
\* above_average_count 0, no top_tags and both recommendation lists empty.
C12_UniformHistoryGivesEmptySuccess ==
  UniformHistory =>
    /\ top_played = << >>
    /\ pc \notin {"idle", "extract"} =>
         top_tags = << >> /\ top_categories = << >>
    /\ pc \in {"fanout", "done"} =>
         /\ \A c \in LookedUp :
              OverlapTotal(DetailOf(c), top_tags, top_categories,
                           tag_weights) = 0
         /\ \A c \in DOMAIN task : task[c].result = None
         /\ recommendations = << >>
    /\ Responded =>
         /\ IsSuccess(response)
         /\ response.above_average_count = 0
         /\ response.total_games >= 1
         /\ response.top_tags = << >>
         /\ response.regular_recommendations = << >>
         /\ response.sale_recommendations = << >>

\* C12 witness: two games were played for the same time, a third was not
\* played, the scorer fetched the detail of a candidate that shares genres
\* with every played game, and the request is answered.
C12_Witness ==
  /\ Responded
  /\ UniformHistory
  /\ Len(PlayedGames(req.owned_games)) = 2
  /\ Len(req.owned_games) = 3
  /\ IsSuccess(response)
  /\ \E c \in LookedUp :
       /\ [app_id |-> c, ok |-> TRUE, by |-> "scorer"] \in fetch_log
       /\ \A i \in DOMAIN req.owned_games :
            Range(StoreData(req.owned_games[i].appid, src_ver).genres) \cap
              Range(DetailOf(c).genres) # {}
====
